---- MODULE Spec2Model ----
(***************************************************************************)
(* find-up: the upward walk (findUp, findUpMultiple and their Sync twins)   *)
(* and the downward walk (findDown, breadth-first and depth-first), with    *)
(* the two module-level path caches, as a state machine.                    *)
(*                                                                          *)
(* An absolute, normalized path is the sequence of its components: the      *)
(* filesystem root "/" is <<>> and "/a/b" is <<"a", "b">> (POSIX paths).    *)
(* A path string handed to the program is a record [abs, segs]; its segs    *)
(* may hold "..".  JavaScript values of several types are records tagged    *)
(* by "kind".                                                               *)
(***************************************************************************)
EXTENDS Integers, Sequences, FiniteSets, TLC

VARIABLES
    files,        \* the paths at which the existence matcher finds a candidate
    subdirs,      \* directory -> its subdirectories' names, in listing order
    unreadable,   \* the directories whose listing fails
    procCwd,      \* process.cwd()
    pathCache,    \* the Map pathCache, as its entries in insertion order
    parentCache,  \* the Map parentCache, as its entries in insertion order
    pc,           \* "idle", "up", "breadth", "depth", "returned" or "threw"
    call,         \* the running call: [op, sync, name, options]
    directory,    \* findUpMultiple's local `directory`
    stopAt,       \* findUpMultiple's local `stopAt`
    limit,        \* findUpMultiple's local `limit`
    matches,      \* findUpMultiple's local `matches`
    maxDepth,     \* findDown's maxDepth
    queue,        \* findDownBreadthFirst's local `queue`
    stack,        \* findDownDepthFirst's pending frames, innermost last
    result,       \* the value the call returned
    matcherLog,   \* every invocation of the custom matcher: [directory, returned]
    fsLog,        \* every filesystem operation: [op, directory]
    foundAt,      \* for each element of matches, the directory it was found at
    callCount,    \* how many calls have returned to the caller before this one
    tasks         \* the asynchronous calls running side by side, each with its locals

vars == <<files, subdirs, unreadable, procCwd, pathCache, parentCache, pc, call,
          directory, stopAt, limit, matches, maxDepth, queue, stack, result,
          matcherLog, fsLog, foundAt, callCount, tasks>>

fsVars == <<files, subdirs, unreadable, procCwd>>
\* What a call made on its own leaves alone.
aloneVars == <<callCount, tasks>>
upVars == <<directory, stopAt, limit, matches, matcherLog, foundAt>>
downVars == <<maxDepth, queue, stack>>

----------------------------------------------------------------------------
(* Bounds of the model. *)

\* The depth of the deepest directory of the upward walk's filesystem.
UpDepth == 2
\* The largest finite `limit` option.
MaxLimit == 2
\* The depth of the deepest directory of the downward walk's filesystems.
TreeDepth == 2
\* The largest `depth` option.
MaxDepthOption == 2
\* How many calls are made one after the other.
MaxCalls == 2

----------------------------------------------------------------------------
(* JavaScript values. *)

Undefined == [kind |-> "undefined"]
findUpStop == [kind |-> "symbol"]
\* A pending asynchronous result: what an async matcher hands a synchronous caller.
PromiseValue == [kind |-> "promise"]
Abs(segs) == [kind |-> "string", abs |-> TRUE, segs |-> segs]
Rel(segs) == [kind |-> "string", abs |-> FALSE, segs |-> segs]
\* An absolute normalized path, as the string the program holds.
Str(path) == Abs(path)
Num(n) == [kind |-> "number", n |-> n, inf |-> FALSE]
\* Number.POSITIVE_INFINITY
Infinity == [kind |-> "number", n |-> 0, inf |-> TRUE]
Array(items) == [kind |-> "array", items |-> items]

IsString(v) == v.kind = "string"
\* JavaScript truthiness of the values a matcher returns.
Truthy(v) == v.kind \in {"string", "symbol", "promise"}
\* matches.length > limit
AtLeastOffByOne(n, lim) == ~lim.inf /\ n > lim.n
\* matches.length >= limit
AtLeast(n, lim) == ~lim.inf /\ n >= lim.n

DotDot == ".."

----------------------------------------------------------------------------
(* node:path *)

RECURSIVE NormalizeFrom(_, _)
NormalizeFrom(segs, acc) ==
    IF segs = <<>> THEN acc
    ELSE IF Head(segs) = DotDot
         THEN NormalizeFrom(Tail(segs),
                  IF acc = <<>> THEN <<>> ELSE SubSeq(acc, 1, Len(acc) - 1))
         ELSE NormalizeFrom(Tail(segs), Append(acc, Head(segs)))

\* An absolute path with its ".." components resolved; "/.." is "/".
Normalize(segs) == NormalizeFrom(segs, <<>>)

RECURSIVE ResolveFrom(_, _, _, _)
ResolveFrom(segments, i, acc, cwd) ==
    IF i = 0 THEN cwd \o acc
    ELSE IF segments[i].abs THEN segments[i].segs \o acc
    ELSE ResolveFrom(segments, i - 1, segments[i].segs \o acc, cwd)

\* path.resolve(...segments): right to left until an absolute segment, the
\* process's working directory before them if there is none, then normalized.
PathResolve(segments, cwd) ==
    Normalize(ResolveFrom(segments, Len(segments), <<>>, cwd))

\* path.dirname(directory) of an absolute normalized directory: the root's is the root.
PathDirname(dir) ==
    IF dir = <<>> THEN <<>> ELSE SubSeq(dir, 1, Len(dir) - 1)

\* path.parse(directory).root: "/".
PathParseRoot(dir) == Abs(<<>>)

\* path.join(directory, entry.name)
PathJoin(dir, entryName) == Append(dir, entryName)

----------------------------------------------------------------------------
(* The caches. *)

maxCacheSize == 1000

CacheHas(cache, key) == \E i \in 1..Len(cache) : cache[i].key = key
CacheGet(cache, key) ==
    cache[CHOOSE i \in 1..Len(cache) : cache[i].key = key].value
\* The size check passing a full cache.
CacheInsertOffByOne(cache, key, value) ==
    Append(IF Len(cache) > maxCacheSize THEN Tail(cache) ELSE cache,
           [key |-> key, value |-> value])
\* The size check, the eviction of the first key, and the set.
CacheInsert(cache, key, value) ==
    Append(IF Len(cache) >= maxCacheSize THEN Tail(cache) ELSE cache,
           [key |-> key, value |-> value])

\* The last segment alone.
ResolveKeyLastOnly(segments) == <<segments[Len(segments)]>>
\* segments.join('\0'): the segments themselves.
ResolveKey(segments) == segments

\* The value cachedResolve(...segments) returns.
cachedResolve(cache, cwd, segments) ==
    IF CacheHas(cache, ResolveKey(segments))
    THEN CacheGet(cache, ResolveKey(segments))
    ELSE PathResolve(segments, cwd)
\* pathCache after cachedResolve(...segments).
PathCacheAfter(cache, cwd, segments) ==
    IF CacheHas(cache, ResolveKey(segments)) THEN cache
    ELSE CacheInsert(cache, ResolveKey(segments), PathResolve(segments, cwd))

\* The value cachedDirname(directory) returns.
cachedDirname(cache, dir) ==
    IF CacheHas(cache, dir) THEN CacheGet(cache, dir) ELSE PathDirname(dir)
\* parentCache after cachedDirname(directory).
ParentCacheAfter(cache, dir) ==
    IF CacheHas(cache, dir) THEN cache
    ELSE CacheInsert(cache, dir, PathDirname(dir))

----------------------------------------------------------------------------
(* locate-path: the existence matcher. *)

RECURSIVE LocateFrom(_, _, _, _)
LocateFrom(paths, i, cwd, fileSet) ==
    IF i > Len(paths) THEN Undefined
    ELSE IF PathResolve(<<Str(cwd), paths[i]>>, cwd) \in fileSet THEN paths[i]
    ELSE LocateFrom(paths, i + 1, cwd, fileSet)

\* locatePath(paths, {cwd}): the first of paths that exists in cwd, or undefined.
locatePath(paths, cwd, fileSet) == LocateFrom(paths, 1, cwd, fileSet)

----------------------------------------------------------------------------
(* The filesystems and the inputs of the upward walk. *)

Marker == Rel(<<"marker">>)

\* The deepest directory: /a/b/a/...
DeepDir == [i \in 1..UpDepth |-> IF i % 2 = 1 THEN "a" ELSE "b"]
Prefixes(path) == {SubSeq(path, 1, k) : k \in 0..Len(path)}
\* The deepest directory's ancestors and itself, and one directory beside them.
UpDirs == Prefixes(DeepDir) \cup {<<"b">>}

\* The targets given to the upward walk: names, as [name].flat(), or a custom
\* matcher function.
Names(paths) == [kind |-> "names", paths |-> paths]
FunctionMatcher == [kind |-> "function"]
UpNames == {Names(<<Marker>>), FunctionMatcher}
\* What a custom matcher may return: nothing, the stop sentinel, a path
\* relative to the directory it is asked about or an absolute one, and, from
\* a matcher that is asynchronous, a promise.
MatcherStrings == {Marker, Abs(<<"marker">>)}
MatcherReturns(sync) ==
    {Undefined, findUpStop} \cup MatcherStrings
        \cup (IF sync THEN {PromiseValue} ELSE {})

\* The process's working directory is the deepest directory.
CwdOptions == {Undefined} \cup {Abs(d) : d \in Prefixes(DeepDir) \ {DeepDir}}
StopAtOptions ==
    {Undefined, Rel(<<DotDot>>)} \cup {Abs(d) : d \in UpDirs \ {<<>>}}
LimitOptions == {Undefined} \cup {Num(n) : n \in 0..MaxLimit}

\* toPath(x) ?? fallback
OrElse(v, fallback) == IF v = Undefined THEN fallback ELSE v

UpOptions == [cwd : CwdOptions, stopAt : StopAtOptions, limit : LimitOptions]
\* What findUp's callers give as limit: nothing, or a limit that findUp overrides.
FindUpOptions ==
    [cwd : CwdOptions, stopAt : StopAtOptions, limit : {Undefined, Num(0)}]

----------------------------------------------------------------------------
(* The upward walk. *)

\* matches[0]
First(items) == IF items = <<>> THEN Undefined ELSE Str(items[1])
\* What the call hands back once the loop is left: findUpMultiple's matches,
\* and findUp's matches[0].
UpResult(op, items) == IF op = "findUp" THEN First(items) ELSE Array(items)

\* No early return.
NoZeroLimit(lim) == FALSE
\* limit === 0
IsZeroLimit(lim) == lim = Num(0)

\* {limit: 1, ...options}
WithLimitKept(options) ==
    [options EXCEPT !.limit = OrElse(options.limit, Num(1))]
\* {...options, limit: 1}
WithLimitOne(options) == [options EXCEPT !.limit = Num(1)]

\* findUpMultiple(name, options) up to the loop: the start directory, stopAt
\* and limit, and the early return of limit 0. `given` is the options of the
\* public call that `options` comes from.
UpEntry(op, sync, name, given, options) ==
    LET seg1 == <<OrElse(options.cwd, Rel(<<>>))>>
        dir == cachedResolve(pathCache, procCwd, seg1)
        cache1 == PathCacheAfter(pathCache, procCwd, seg1)
        seg2 == <<Str(dir), OrElse(options.stopAt, PathParseRoot(dir))>>
        stop == cachedResolve(cache1, procCwd, seg2)
        cache2 == PathCacheAfter(cache1, procCwd, seg2)
        lim == OrElse(options.limit, Infinity)
    IN  /\ pc = "idle"
        /\ call' = [op |-> op, sync |-> sync, name |-> name, options |-> given]
        /\ directory' = dir
        /\ stopAt' = stop
        /\ limit' = lim
        /\ matches' = <<>>
        /\ pathCache' = cache2
        /\ IF IsZeroLimit(lim)
           THEN pc' = "returned" /\ result' = UpResult(op, <<>>)
           ELSE pc' = "up" /\ result' = result
        /\ UNCHANGED <<fsVars, aloneVars, parentCache, downVars, matcherLog, fsLog, foundAt>>

\* findUpMultiple / findUpMultipleSync
findUpMultiple(sync, name, options) ==
    UpEntry("findUpMultiple", sync, name, options, options)

\* findUp / findUpSync: findUpMultiple with {...options, limit: 1}.
findUp(sync, name, options) ==
    UpEntry("findUp", sync, name, options, WithLimitOne(options))

\* runMatcher({...options, cwd: directory}), given what the custom matcher
\* returned (awaited, in the asynchronous walk).
runMatcher(name, returned, dir, fileSet) ==
    IF name.kind # "function" THEN locatePath(name.paths, dir, fileSet)
    ELSE IF IsString(returned) THEN locatePath(<<returned>>, dir, fileSet)
    ELSE returned

\* Whether runMatcher asks the existence matcher.
MatcherLocates(name, returned) ==
    name.kind # "function" \/ IsString(returned)

\* The sentinel taken for any other value.
StopIgnored(foundPath) == FALSE
\* foundPath === findUpStop
StopRequested(foundPath) == foundPath = findUpStop
\* The boundary never compared.
StopAtMissed(dir, stop) == FALSE
\* The boundary compared by its last component.
AtStopAtByName(dir, stop) ==
    \/ dir = stop
    \/ dir # <<>> /\ stop # <<>> /\ dir[Len(dir)] = stop[Len(stop)]
\* directory === stopAt
AtStopAt(dir, stop) == dir = stop
\* parent !== directory
AtRootInverted(parent, dir) == parent # dir
\* parent === directory
AtRoot(parent, dir) == parent = dir

\* One turn of the loop of findUpMultiple / findUpMultipleSync. `returned` is
\* what the custom matcher returns for `directory`.
UpIterate(returned) ==
    LET isFn == call.name.kind = "function"
        foundPath == runMatcher(call.name, returned, directory, files)
        stopped == StopRequested(foundPath)
        found == ~stopped /\ Truthy(foundPath)
        \* path.resolve throws a TypeError on a segment that is no string
        throws == found /\ ~IsString(foundPath)
        seg == <<Str(directory), foundPath>>
        newMatches ==
            IF found
            THEN Append(matches, cachedResolve(pathCache, procCwd, seg))
            ELSE matches
        full == found /\ AtLeast(Len(newMatches), limit)
        atStop == AtStopAt(directory, stopAt)
        parent == cachedDirname(parentCache, directory)
        asked == ~stopped /\ ~full /\ ~atStop
        leave == stopped \/ full \/ atStop \/ AtRoot(parent, directory)
    IN  /\ pc = "up"
        /\ IF isFn THEN returned \in MatcherReturns(call.sync)
                   ELSE returned = Undefined
        /\ matcherLog' =
              IF isFn
              THEN Append(matcherLog, [directory |-> directory, returned |-> returned])
              ELSE matcherLog
        /\ fsLog' =
              IF MatcherLocates(call.name, returned)
              THEN Append(fsLog, [op |-> "locate", directory |-> directory])
              ELSE fsLog
        /\ IF throws
           THEN /\ pc' = "threw"
                /\ UNCHANGED <<pathCache, parentCache, directory, matches,
                               foundAt, result>>
           ELSE /\ matches' = newMatches
                /\ foundAt' = IF found THEN Append(foundAt, directory) ELSE foundAt
                /\ pathCache' =
                      IF found THEN PathCacheAfter(pathCache, procCwd, seg)
                      ELSE pathCache
                /\ parentCache' =
                      IF asked THEN ParentCacheAfter(parentCache, directory)
                      ELSE parentCache
                /\ IF leave
                   THEN /\ pc' = "returned"
                        /\ result' = UpResult(call.op, newMatches)
                        /\ directory' = directory
                   ELSE /\ pc' = "up"
                        /\ result' = result
                        /\ directory' = parent
        /\ UNCHANGED <<fsVars, aloneVars, call, stopAt, limit, downVars>>

----------------------------------------------------------------------------
(* The synchronous upward walk, run to completion. *)

\* What the custom matcher returns for `dir`, the matcher being given by the
\* answers it made: [directory, returned]. It is asked about no other directory.
MatcherAnswer(answers, dir) ==
    IF \E i \in 1..Len(answers) : answers[i].directory = dir
    THEN answers[CHOOSE i \in 1..Len(answers) : answers[i].directory = dir].returned
    ELSE Undefined

\* What findUpMultipleSync hands back: its matches or the TypeError thrown,
\* the directories it gave to runMatcher, and the two caches as it leaves them.
UpOutcome(items, threw, visited, paths, parents) ==
    [matches |-> items, threw |-> threw, inspected |-> visited,
     pathCache |-> paths, parentCache |-> parents]

RECURSIVE findUpMultipleSyncLoop(_, _, _, _, _, _, _, _, _)
\* The loop of findUpMultipleSync, from `dir` on.
findUpMultipleSyncLoop(name, answers, stop, lim, dir, items, visited, paths, parents) ==
    LET returned == IF name.kind = "function" THEN MatcherAnswer(answers, dir)
                    ELSE Undefined
        foundPath == runMatcher(name, returned, dir, files)
        seen == Append(visited, dir)
        pushed == Append(items, cachedResolve(paths, procCwd, <<Str(dir), foundPath>>))
        paths1 == PathCacheAfter(paths, procCwd, <<Str(dir), foundPath>>)
        parent == cachedDirname(parents, dir)
        parents1 == ParentCacheAfter(parents, dir)
    IN  IF StopRequested(foundPath)
        THEN UpOutcome(items, FALSE, seen, paths, parents)
        ELSE IF Truthy(foundPath) /\ ~IsString(foundPath)
        THEN UpOutcome(items, TRUE, seen, paths, parents)
        ELSE IF Truthy(foundPath) /\ AtLeast(Len(pushed), lim)
        THEN UpOutcome(pushed, FALSE, seen, paths1, parents)
        ELSE LET items1 == IF Truthy(foundPath) THEN pushed ELSE items
                 paths2 == IF Truthy(foundPath) THEN paths1 ELSE paths
             IN  IF AtStopAt(dir, stop)
                 THEN UpOutcome(items1, FALSE, seen, paths2, parents)
                 ELSE IF AtRoot(parent, dir)
                 THEN UpOutcome(items1, FALSE, seen, paths2, parents1)
                 ELSE findUpMultipleSyncLoop(name, answers, stop, lim, parent,
                                             items1, seen, paths2, parents1)

\* findUpMultipleSync(name, options), the caches being `paths` and `parents`.
findUpMultipleSync(name, answers, options, paths, parents) ==
    LET seg1 == <<OrElse(options.cwd, Rel(<<>>))>>
        dir == cachedResolve(paths, procCwd, seg1)
        paths1 == PathCacheAfter(paths, procCwd, seg1)
        seg2 == <<Str(dir), OrElse(options.stopAt, PathParseRoot(dir))>>
        stop == cachedResolve(paths1, procCwd, seg2)
        paths2 == PathCacheAfter(paths1, procCwd, seg2)
        lim == OrElse(options.limit, Infinity)
    IN  IF IsZeroLimit(lim) THEN UpOutcome(<<>>, FALSE, <<>>, paths2, parents)
        ELSE findUpMultipleSyncLoop(name, answers, stop, lim, dir, <<>>, <<>>,
                                    paths2, parents)

\* findUpSync(name, options): findUpMultipleSync with {...options, limit: 1}.
findUpSync(name, answers, options, paths, parents) ==
    findUpMultipleSync(name, answers, WithLimitOne(options), paths, parents)

----------------------------------------------------------------------------
(* The upward walk's specification. *)

\* The listing of each directory of the upward walk's filesystem.
UpSubdirs ==
    [d \in UpDirs |->
        IF Append(d, "a") \in UpDirs /\ Append(d, "b") \in UpDirs THEN <<"a", "b">>
        ELSE IF Append(d, "a") \in UpDirs THEN <<"a">>
        ELSE IF Append(d, "b") \in UpDirs THEN <<"b">>
        ELSE <<>>]

\* No call is running.
NoCall ==
    /\ pc = "idle"
    /\ call = Undefined
    /\ directory = <<>>
    /\ stopAt = <<>>
    /\ limit = Infinity
    /\ matches = <<>>
    /\ maxDepth = 0
    /\ queue = <<>>
    /\ stack = <<>>
    /\ result = Undefined
    /\ matcherLog = <<>>
    /\ fsLog = <<>>
    /\ foundAt = <<>>
    /\ callCount = 0
    /\ tasks = <<>>

\* The module has just been loaded.
Idle ==
    /\ pathCache = <<>>
    /\ parentCache = <<>>
    /\ NoCall

Init ==
    /\ files \in SUBSET {Append(d, "marker") : d \in Prefixes(DeepDir)}
    /\ subdirs = UpSubdirs
    /\ unreadable = {}
    /\ procCwd = DeepDir
    /\ Idle

Next ==
    \/ \E sync \in BOOLEAN, name \in UpNames, options \in UpOptions :
          findUpMultiple(sync, name, options)
    \/ \E sync \in BOOLEAN, name \in UpNames, options \in FindUpOptions :
          findUp(sync, name, options)
    \/ \E returned \in MatcherReturns(TRUE) : UpIterate(returned)

Spec == Init /\ [][Next]_vars

----------------------------------------------------------------------------
(* The filesystems and the inputs of the downward walk. *)

DirNames == {"a", "b"}
\* The directory paths of at most n components.
Paths(n) == UNION {[1..k -> DirNames] : k \in 0..n}
\* The orders a directory may list its subdirectories in.
Listings == {<<>>, <<"a">>, <<"b">>, <<"a", "b">>, <<"b", "a">>}
\* How many directories a tree may hold below the root, and how many of its
\* directories may hold the target.
DirCounts == 0..4
FileCounts == 0..2
\* The directory whose listing may fail.
UnreadableDirs == {<<"a">>}

Range(seq) == {seq[i] : i \in 1..Len(seq)}
\* The subdirectories' names of directory d, in listing order.
Listing(tree, d) == IF d \in DOMAIN tree THEN tree[d] ELSE <<>>

RECURSIVE DirExists(_, _)
\* Whether d is a directory of the tree: the root, or listed by its parent.
DirExists(tree, d) ==
    \/ d = <<>>
    \/ /\ d[Len(d)] \in Range(Listing(tree, PathDirname(d)))
       /\ DirExists(tree, PathDirname(d))

ExistingDirs(tree) == {d \in Paths(TreeDepth) : DirExists(tree, d)}

\* The trees: every directory that lists something exists.
Trees ==
    {tree \in [Paths(TreeDepth - 1) -> Listings] :
        /\ \A d \in DOMAIN tree : tree[d] # <<>> => DirExists(tree, d)
        /\ Cardinality(ExistingDirs(tree)) - 1 \in DirCounts}

DownNames == {Names(<<Marker>>)}
DownCwdOptions == {Undefined, Abs(<<"a">>)}
DepthOptions == {Undefined} \cup {Num(n) : n \in -1..MaxDepthOption}
StrategyOptions == {"breadth", "depth"}
DownOptions ==
    [cwd : DownCwdOptions, depth : DepthOptions, strategy : StrategyOptions]

----------------------------------------------------------------------------
(* The downward walk. *)

\* Math.max(0, options.depth || 1)
ClampDepthOr(depth) ==
    LET d == OrElse(depth, Num(1)).n IN IF d <= 0 THEN (IF d = 0 THEN 1 ELSE 0) ELSE d

\* Math.max(0, options.depth ?? 1)
ClampDepth(depth) ==
    LET d == OrElse(depth, Num(1)).n IN IF d < 0 THEN 0 ELSE d

\* Whether fs.readdir(directory) throws.
ReaddirFails(tree, unread, dir) == dir \in unread \/ ~DirExists(tree, dir)

\* fs.readdir(directory, {withFileTypes: true}): the subdirectories in listing
\* order, then the candidate file if the directory holds it.
Readdir(tree, fileSet, dir) ==
    [i \in 1..Len(Listing(tree, dir)) |->
        [name |-> Listing(tree, dir)[i], isDirectory |-> TRUE]]
    \o (IF Append(dir, "marker") \in fileSet
        THEN <<[name |-> "marker", isDirectory |-> FALSE]>> ELSE <<>>)

IsDirectoryEntry(entry) == entry.isDirectory

\* The entries taken last to first.
SubdirectoriesReversed(tree, fileSet, unread, dir) ==
    IF ReaddirFails(tree, unread, dir) THEN <<>>
    ELSE LET entries == SelectSeq(Readdir(tree, fileSet, dir), IsDirectoryEntry)
         IN  [i \in 1..Len(entries) |->
                 PathJoin(dir, entries[Len(entries) + 1 - i].name)]

\* The entries of a directory whose listing failed taken all the same.
SubdirectoriesUnguarded(tree, fileSet, unread, dir) ==
    LET entries == SelectSeq(Readdir(tree, fileSet, dir), IsDirectoryEntry)
    IN  [i \in 1..Len(entries) |-> PathJoin(dir, entries[i].name)]

\* The paths of the entries of `directory` the walks go down into: those that
\* are directories, in listing order; none when the listing fails.
Subdirectories(tree, fileSet, unread, dir) ==
    IF ReaddirFails(tree, unread, dir) THEN <<>>
    ELSE LET entries == SelectSeq(Readdir(tree, fileSet, dir), IsDirectoryEntry)
         IN  [i \in 1..Len(entries) |-> PathJoin(dir, entries[i].name)]

\* queue.unshift(...)
EnqueueFront(pending, pushed) == pushed \o pending
\* queue.push(...) of the subdirectories, in order.
Enqueue(pending, pushed) == pending \o pushed

\* depth > maxDepth
DescendsOffByOne(depth, max) == ~(depth > max)
\* Whether the walk lists a directory it found no match in: not when
\* depth >= maxDepth.
Descends(depth, max) == ~(depth >= max)

\* What a directory's visit adds to fsLog: the existence check, and the
\* listing if one is made.
VisitLog(dir, listed) ==
    <<[op |-> "locate", directory |-> dir]>>
    \o (IF listed THEN <<[op |-> "readdir", directory |-> dir]>> ELSE <<>>)

\* What a synchronous walk hands back: the directory of the match and the
\* candidate found there (or undefined), and the filesystem operations made.
Outcome(dir, found, log) == [directory |-> dir, found |-> found, log |-> log]

RECURSIVE findDownBreadthFirstSync(_, _, _, _)
\* findDownBreadthFirstSync, from the queue `pending` on.
findDownBreadthFirstSync(pending, paths, max, log) ==
    IF pending = <<>> THEN Outcome(<<>>, Undefined, log)
    ELSE LET head == Head(pending)
             found == locatePath(paths, head.directory, files)
             listed == Descends(head.depth, max)
             subs == Subdirectories(subdirs, files, unreadable, head.directory)
             pushed == [i \in 1..Len(subs) |->
                           [directory |-> subs[i], depth |-> head.depth + 1]]
         IN  IF found # Undefined
             THEN Outcome(head.directory, found,
                          log \o VisitLog(head.directory, FALSE))
             ELSE findDownBreadthFirstSync(
                      IF listed THEN Enqueue(Tail(pending), pushed)
                      ELSE Tail(pending),
                      paths, max, log \o VisitLog(head.directory, listed))

RECURSIVE findDownDepthFirstSync(_, _, _, _)
RECURSIVE DepthFirstEntriesSync(_, _, _, _, _, _)
\* The subdirectories gone through before the directory's own check.
findDownDepthFirstSyncPostOrder(dir, paths, max, currentDepth) ==
    LET found == locatePath(paths, dir, files)
        below ==
            IF ~Descends(currentDepth, max) THEN Outcome(<<>>, Undefined, <<>>)
            ELSE DepthFirstEntriesSync(
                     Subdirectories(subdirs, files, unreadable, dir), 1,
                     paths, max, currentDepth + 1,
                     <<[op |-> "readdir", directory |-> dir]>>)
    IN  IF below.found # Undefined THEN below
        ELSE Outcome(IF found # Undefined THEN dir ELSE <<>>, found,
                     below.log \o VisitLog(dir, FALSE))

\* findDownDepthFirstSync(directory, paths, maxDepth, locateOptions, currentDepth)
findDownDepthFirstSync(dir, paths, max, currentDepth) ==
    LET found == locatePath(paths, dir, files)
    IN  IF found # Undefined THEN Outcome(dir, found, VisitLog(dir, FALSE))
        ELSE IF ~Descends(currentDepth, max)
        THEN Outcome(<<>>, Undefined, VisitLog(dir, FALSE))
        ELSE DepthFirstEntriesSync(
                 Subdirectories(subdirs, files, unreadable, dir), 1,
                 paths, max, currentDepth + 1, VisitLog(dir, TRUE))

\* The first subdirectory's result returned whatever it is.
DepthFirstEntriesSyncFirstOnly(subs, i, paths, max, depth, log) ==
    IF i > Len(subs) THEN Outcome(<<>>, Undefined, log)
    ELSE LET r == findDownDepthFirstSync(subs[i], paths, max, depth)
         IN  Outcome(r.directory, r.found, log \o r.log)

\* Its loop over the entries, from the i-th subdirectory on.
DepthFirstEntriesSync(subs, i, paths, max, depth, log) ==
    IF i > Len(subs) THEN Outcome(<<>>, Undefined, log)
    ELSE LET r == findDownDepthFirstSync(subs[i], paths, max, depth)
         IN  IF r.found # Undefined
             THEN Outcome(r.directory, r.found, log \o r.log)
             ELSE DepthFirstEntriesSync(subs, i + 1, paths, max, depth,
                                        log \o r.log)

\* findDownSync: prepareFindDownOptions and the strategy's walk, in one turn.
findDownSync(name, options) ==
    LET seg == <<OrElse(options.cwd, Rel(<<>>))>>
        startDirectory == cachedResolve(pathCache, procCwd, seg)
        cache1 == PathCacheAfter(pathCache, procCwd, seg)
        max == ClampDepth(options.depth)
        r == IF options.strategy = "depth"
             THEN findDownDepthFirstSync(startDirectory, name.paths, max, 0)
             ELSE findDownBreadthFirstSync(
                      <<[directory |-> startDirectory, depth |-> 0]>>,
                      name.paths, max, <<>>)
        seg2 == <<Str(r.directory), r.found>>
    IN  /\ pc = "idle"
        /\ call' = [op |-> "findDown", sync |-> TRUE, name |-> name,
                    options |-> options]
        /\ maxDepth' = max
        /\ fsLog' = fsLog \o r.log
        /\ pc' = "returned"
        /\ IF r.found # Undefined
           THEN /\ result' = Str(cachedResolve(cache1, procCwd, seg2))
                /\ pathCache' = PathCacheAfter(cache1, procCwd, seg2)
           ELSE /\ result' = Undefined
                /\ pathCache' = cache1
        /\ UNCHANGED <<fsVars, aloneVars, parentCache, upVars, queue, stack>>

\* findDown: prepareFindDownOptions, then the strategy's walk up to its first
\* directory.
findDown(name, options) ==
    LET seg == <<OrElse(options.cwd, Rel(<<>>))>>
        startDirectory == cachedResolve(pathCache, procCwd, seg)
    IN  /\ pc = "idle"
        /\ call' = [op |-> "findDown", sync |-> FALSE, name |-> name,
                    options |-> options]
        /\ pathCache' = PathCacheAfter(pathCache, procCwd, seg)
        /\ maxDepth' = ClampDepth(options.depth)
        /\ IF options.strategy = "depth"
           THEN /\ pc' = "depth"
                /\ stack' = <<[depth |-> 0, todo |-> <<startDirectory>>]>>
                /\ queue' = queue
           ELSE /\ pc' = "breadth"
                /\ queue' = <<[directory |-> startDirectory, depth |-> 0]>>
                /\ stack' = stack
        /\ UNCHANGED <<fsVars, aloneVars, parentCache, upVars, result, fsLog>>

\* One turn of the loop of findDownBreadthFirst.
findDownBreadthFirst ==
    LET head == Head(queue)
        found == locatePath(call.name.paths, head.directory, files)
        isFound == found # Undefined
        seg == <<Str(head.directory), found>>
        listed == ~isFound /\ Descends(head.depth, maxDepth)
        subs == Subdirectories(subdirs, files, unreadable, head.directory)
        pushed == [i \in 1..Len(subs) |->
                      [directory |-> subs[i], depth |-> head.depth + 1]]
        newQueue == IF listed THEN Enqueue(Tail(queue), pushed) ELSE Tail(queue)
    IN  /\ pc = "breadth"
        /\ fsLog' = fsLog \o VisitLog(head.directory, listed)
        /\ IF isFound
           THEN /\ pc' = "returned"
                /\ result' = Str(cachedResolve(pathCache, procCwd, seg))
                /\ pathCache' = PathCacheAfter(pathCache, procCwd, seg)
                /\ queue' = Tail(queue)
           ELSE /\ queue' = newQueue
                /\ pathCache' = pathCache
                /\ IF newQueue = <<>>
                   THEN pc' = "returned" /\ result' = Undefined
                   ELSE pc' = "breadth" /\ result' = result
        /\ UNCHANGED <<fsVars, aloneVars, parentCache, call, upVars, maxDepth, stack>>

\* The first subdirectory's result returned whatever it is.
UnwindEarly(frames) ==
    IF frames # <<>> /\ frames[Len(frames)].todo = <<>> THEN <<>> ELSE frames

RECURSIVE Unwind(_)
\* The pending loops left once those with no entry left have returned.
Unwind(frames) ==
    IF frames = <<>> THEN <<>>
    ELSE IF frames[Len(frames)].todo = <<>>
         THEN Unwind(SubSeq(frames, 1, Len(frames) - 1))
         ELSE frames

\* One invocation of findDownDepthFirst, on the next
\* entry of the innermost pending loop, and the returns that follow it.
findDownDepthFirst ==
    LET top == stack[Len(stack)]
        dir == Head(top.todo)
        found == locatePath(call.name.paths, dir, files)
        isFound == found # Undefined
        seg == <<Str(dir), found>>
        listed == ~isFound /\ Descends(top.depth, maxDepth)
        subs == Subdirectories(subdirs, files, unreadable, dir)
        rest == [stack EXCEPT ![Len(stack)].todo = Tail(top.todo)]
        newStack ==
            Unwind(IF listed
                   THEN Append(rest, [depth |-> top.depth + 1, todo |-> subs])
                   ELSE rest)
    IN  /\ pc = "depth"
        /\ fsLog' = fsLog \o VisitLog(dir, listed)
        /\ IF isFound
           THEN /\ pc' = "returned"
                /\ result' = Str(cachedResolve(pathCache, procCwd, seg))
                /\ pathCache' = PathCacheAfter(pathCache, procCwd, seg)
                /\ stack' = <<>>
           ELSE /\ stack' = newStack
                /\ pathCache' = pathCache
                /\ IF newStack = <<>>
                   THEN pc' = "returned" /\ result' = Undefined
                   ELSE pc' = "depth" /\ result' = result
        /\ UNCHANGED <<fsVars, aloneVars, parentCache, call, upVars, maxDepth, queue>>

----------------------------------------------------------------------------
(* The downward walk's specification. *)

InitDown ==
    /\ subdirs \in Trees
    /\ \E dirs \in SUBSET ExistingDirs(subdirs) :
          /\ Cardinality(dirs) \in FileCounts
          /\ files = {Append(d, "marker") : d \in dirs}
    /\ unreadable \in SUBSET (UnreadableDirs \cap ExistingDirs(subdirs))
    /\ procCwd = <<>>
    /\ Idle

NextDown ==
    \/ \E name \in DownNames, options \in DownOptions : findDown(name, options)
    \/ \E name \in DownNames, options \in DownOptions :
          findDownSync(name, options)
    \/ findDownBreadthFirst
    \/ findDownDepthFirst

SpecDown == InitDown /\ [][NextDown]_vars

----------------------------------------------------------------------------
(* What the claims speak of. *)

IsPrefix(p, d) == Len(p) <= Len(d) /\ SubSeq(d, 1, Len(p)) = p
\* p is a strict ancestor of d.
StrictAncestor(p, d) == IsPrefix(p, d) /\ p # d

\* The start directory of the running call, resolved without the cache.
StartDirectory == PathResolve(<<OrElse(call.options.cwd, Rel(<<>>))>>, procCwd)

\* The directories the upward walk has inspected (handed to runMatcher), in order.
Inspected ==
    IF call.name.kind = "function"
    THEN [i \in 1..Len(matcherLog) |-> matcherLog[i].directory]
    ELSE [i \in 1..Len(fsLog) |-> fsLog[i].directory]

UpCall == pc \in {"up", "returned", "threw"} /\ call.op \in {"findUp", "findUpMultiple"}
\* The custom matcher has returned the stop sentinel.
SentinelSeen == \E i \in 1..Len(matcherLog) : matcherLog[i].returned = findUpStop

----------------------------------------------------------------------------
(* C1 *)

\* C1: findUpMultiple / findUpMultipleSync with a limit k > 0 returns a list
\* of at most k matches, nearest ancestor first: each match was found at an
\* inspected directory of its own, the directory of each match is a strict
\* descendant of the directory of the next one, and each match is the
\* candidate resolved against the directory it was found at.
C1_AtMostLimitNearestFirst ==
    (pc = "returned" /\ call.op = "findUpMultiple" /\ ~limit.inf /\ limit.n > 0) =>
        /\ result = Array(matches)
        /\ Len(result.items) <= limit.n
        /\ Len(foundAt) = Len(result.items)
        /\ \A i \in 1..Len(foundAt) : foundAt[i] \in Range(Inspected)
        /\ \A i \in 1..(Len(foundAt) - 1) : StrictAncestor(foundAt[i + 1], foundAt[i])
        /\ \A i \in 1..Len(foundAt) :
              IF call.name.kind = "function"
              THEN \E k \in 1..Len(matcherLog) :
                      /\ matcherLog[k].directory = foundAt[i]
                      /\ IsString(matcherLog[k].returned)
                      /\ result.items[i] =
                            PathResolve(<<Str(foundAt[i]), matcherLog[k].returned>>,
                                        procCwd)
              ELSE result.items[i] = Append(foundAt[i], "marker")

\* A walk from /a/b that the limit 2 ends at /a, with a third match above.
C1_Witness ==
    /\ pc = "returned" /\ call.op = "findUpMultiple"
    /\ limit = Num(2)
    /\ result = Array(<<<<"a", "b", "marker">>, <<"a", "marker">>>>)
    /\ <<"marker">> \in files

----------------------------------------------------------------------------
(* C2 *)

\* Where the walk stands once the matcher has returned the stop sentinel at D.
C2_AfterSentinel ==
    \A i \in 1..Len(matcherLog) :
        matcherLog[i].returned = findUpStop =>
            /\ pc = "returned"
            /\ i = Len(matcherLog)
            /\ \A j \in 1..Len(matcherLog) :
                  j # i => StrictAncestor(matcherLog[i].directory,
                                          matcherLog[j].directory)
            /\ \A j \in 1..Len(foundAt) :
                  StrictAncestor(matcherLog[i].directory, foundAt[j])
            /\ \A j \in 1..Len(fsLog) :
                  StrictAncestor(matcherLog[i].directory, fsLog[j].directory)
            /\ result = UpResult(call.op, matches)

\* The step in which the matcher returns the stop sentinel.
C2_SentinelStep ==
    (pc = "up" /\ ~SentinelSeen /\ SentinelSeen') =>
        /\ pc' = "returned"
        /\ matches' = matches
        /\ foundAt' = foundAt
        /\ fsLog' = fsLog
        /\ result' = UpResult(call.op, matches)

\* C2: when a custom matcher returns the stop sentinel at directory D the walk
\* ends at once: that step returns the matches collected so far, unchanged;
\* no match was found at D or at an ancestor of D, and neither the matcher nor
\* the existence matcher is ever invoked on an ancestor of D.
C2_SentinelEndsWalk == [][C2_SentinelStep]_vars /\ []C2_AfterSentinel

\* The sentinel at /a, after a match at /a/b and with a candidate at / above.
C2_Witness ==
    /\ pc = "returned" /\ call.op = "findUpMultiple"
    /\ Len(matcherLog) = 2
    /\ matcherLog[2] = [directory |-> <<"a">>, returned |-> findUpStop]
    /\ result = Array(<<<<"a", "b", "marker">>>>)
    /\ <<"marker">> \in files
    /\ <<"a", "marker">> \in files

----------------------------------------------------------------------------
(* C3 *)

\* What a walk with no stopAt has inspected: the start directory and then its
\* successive parents, none twice, nothing after the root, at most one
\* directory per level from the start to the root; and it returns short of
\* the root only on a full match list or the stop sentinel.
C3_InspectsStartToRoot ==
    (UpCall /\ call.options.stopAt = Undefined) =>
        /\ Len(Inspected) >= 1 => Inspected[1] = StartDirectory
        /\ \A i \in 1..(Len(Inspected) - 1) :
              /\ Inspected[i + 1] = PathDirname(Inspected[i])
              /\ Inspected[i + 1] # Inspected[i]
        /\ \A i \in 1..Len(Inspected) :
              Inspected[i] = <<>> => (i = Len(Inspected) /\ pc # "up")
        /\ pc = "up" => Len(Inspected) + Len(directory) = Len(StartDirectory)
        /\ Len(Inspected) <= Len(StartDirectory) + 1
        /\ (pc = "returned" /\ ~IsZeroLimit(limit)) =>
              \/ Inspected[Len(Inspected)] = <<>>
              \/ AtLeast(Len(matches), limit)
              \/ SentinelSeen

\* Every turn of the loop ends the walk or moves to a strictly shorter path.
C3_TurnShortensPath ==
    (pc = "up" /\ call.options.stopAt = Undefined) =>
        (pc' # "up" \/ Len(directory') < Len(directory))

\* C3: findUp / findUpMultiple with no stopAt terminates: every turn of its
\* loop ends the walk or moves to a strictly shorter path, so it makes at most
\* one turn per directory from the start to the root; the directories it
\* inspects are exactly the start directory followed by its successive
\* parents, each once, and none after the root, also when the start is the root.
C3_WalksToRootAndEnds == [][C3_TurnShortensPath]_vars /\ []C3_InspectsStartToRoot

\* A walk from /a/b that found nothing and ended at the root.
C3_Witness ==
    /\ pc = "returned" /\ call.op = "findUp"
    /\ call.options.stopAt = Undefined
    /\ Inspected = <<<<"a", "b">>, <<"a">>, <<>>>>
    /\ result = Undefined

----------------------------------------------------------------------------
(* C4 *)

\* The walk ended for no other reason than its boundary.
RanItsCourse ==
    pc = "returned" /\ ~IsZeroLimit(limit) /\ ~AtLeast(Len(matches), limit)
        /\ ~SentinelSeen

\* C4: when stopAt resolves to the start directory or an ancestor of it, the
\* walk halts at stopAt inclusively: no strict ancestor of stopAt is ever
\* inspected or matched, a walk that ran its course has inspected stopAt last
\* and returns the match there if there is one, and a walk for a name that
\* exists only above stopAt returns nothing (findUp) or the empty list.
C4_HaltsAtStopAt ==
    (UpCall /\ IsPrefix(stopAt, StartDirectory)) =>
        /\ \A i \in 1..Len(Inspected) : IsPrefix(stopAt, Inspected[i])
        /\ \A i \in 1..Len(foundAt) : IsPrefix(stopAt, foundAt[i])
        /\ RanItsCourse =>
              /\ Inspected[Len(Inspected)] = stopAt
              /\ (call.name.kind = "names" /\ Append(stopAt, "marker") \in files) =>
                    /\ matches # <<>>
                    /\ matches[Len(matches)] = Append(stopAt, "marker")
        /\ (pc = "returned" /\ call.name.kind = "names"
              /\ \A f \in files : ~IsPrefix(stopAt, PathDirname(f))) =>
              result = UpResult(call.op, <<>>)

\* The scenario: from /a/b with stopAt /a, the marker only at /.
C4_Witness ==
    /\ pc = "returned" /\ call.op = "findUp"
    /\ call.options.stopAt = Abs(<<"a">>)
    /\ StartDirectory = <<"a", "b">>
    /\ files = {<<"marker">>}
    /\ Inspected = <<<<"a", "b">>, <<"a">>>>
    /\ result = Undefined

----------------------------------------------------------------------------
(* C5 *)

\* C5: findUpMultiple with limit 0 returns the empty list and visits no
\* directory: neither the existence matcher nor the custom matcher is invoked.
C5_LimitZeroVisitsNothing ==
    (pc # "idle" /\ call.op = "findUpMultiple" /\ call.options.limit = Num(0)) =>
        /\ pc = "returned"
        /\ result = Array(<<>>)
        /\ matcherLog = <<>>
        /\ fsLog = <<>>

\* Limit 0 with a candidate in the start directory itself.
C5_Witness ==
    /\ pc = "returned" /\ call.op = "findUpMultiple"
    /\ call.options.limit = Num(0)
    /\ Append(StartDirectory, "marker") \in files
    /\ result = Array(<<>>)

----------------------------------------------------------------------------
(* What the claims about the downward walk speak of. *)

DownCall == pc \in {"breadth", "depth", "returned"} /\ call.op = "findDown"
Returned == pc = "returned" /\ call.op = "findDown"
\* How far below the start directory d lies.
DepthBelow(d) == Len(d) - Len(StartDirectory)
\* The directories at most `max` levels below the start directory, itself included.
Within(max) ==
    {d \in ExistingDirs(subdirs) :
        IsPrefix(StartDirectory, d) /\ DepthBelow(d) <= max}
HoldsTarget(d) == Append(d, "marker") \in files
\* The walk can list its way to d: no directory from the start down to d's
\* parent fails to list.
Reachable(d) ==
    \A k \in Len(StartDirectory)..(Len(d) - 1) :
        ~ReaddirFails(subdirs, unreadable, SubSeq(d, 1, k))
\* No listing the walk made failed.
ListingsSucceeded ==
    \A i \in 1..Len(fsLog) :
        fsLog[i].op = "readdir" =>
            ~ReaddirFails(subdirs, unreadable, fsLog[i].directory)
\* The directory of the returned match.
ResultDirectory == PathDirname(result.segs)

IndexOf(seq, x) == CHOOSE i \in 1..Len(seq) : seq[i] = x
\* The first place at which the paths d and e, of equal length, differ.
FirstDifference(d, e) ==
    CHOOSE k \in 1..Len(d) : d[k] # e[k] /\ SubSeq(d, 1, k - 1) = SubSeq(e, 1, k - 1)
\* Level order among two directories of one depth: at the directory where the
\* two paths part, d's branch is listed before e's.
ListedBefore(d, e) ==
    LET k == FirstDifference(d, e)
        listing == Listing(subdirs, SubSeq(d, 1, k - 1))
    IN  IndexOf(listing, d[k]) < IndexOf(listing, e[k])

----------------------------------------------------------------------------
(* C6 *)

\* C6: findDown never inspects, and never returns a match from, a directory
\* deeper than maxDepth below the start directory, under either strategy; and
\* when no listing failed it returns a match if and only if some directory at
\* most maxDepth below the start holds the target.
C6_BoundedByMaxDepth ==
    DownCall =>
        /\ \A i \in 1..Len(fsLog) :
              /\ IsPrefix(StartDirectory, fsLog[i].directory)
              /\ DepthBelow(fsLog[i].directory) <= maxDepth
        /\ (pc = "returned" /\ result # Undefined) =>
              /\ result.segs \in files
              /\ ResultDirectory \in Within(maxDepth)
        /\ (pc = "returned" /\ ListingsSucceeded) =>
              (result # Undefined <=> \E d \in Within(maxDepth) : HoldsTarget(d))

\* The scenario: depth 1, the target only two levels down; nothing is returned.
C6_Witness ==
    /\ Returned /\ ~call.sync
    /\ call.options.depth = Num(1) /\ call.options.strategy = "depth"
    /\ StartDirectory = <<>>
    /\ files = {<<"a", "b", "marker">>}
    /\ ListingsSucceeded
    /\ result = Undefined

----------------------------------------------------------------------------
(* C7 *)

\* C7: findDown with depth 0 or a negative depth makes the existence check on
\* the start directory, and nothing else: no directory is listed, under
\* either strategy, and the result is the start directory's match or nothing.
C7_DepthZeroChecksStartOnly ==
    (DownCall /\ call.options.depth \in {Num(0), Num(-1)}) =>
        /\ Len(fsLog) <= 1
        /\ \A i \in 1..Len(fsLog) :
              fsLog[i] = [op |-> "locate", directory |-> StartDirectory]
        /\ pc = "returned" =>
              /\ Len(fsLog) = 1
              /\ result = IF HoldsTarget(StartDirectory)
                          THEN Str(Append(StartDirectory, "marker"))
                          ELSE Undefined

\* A negative depth, the target one level below the start: nothing is returned.
C7_Witness ==
    /\ Returned
    /\ call.options.depth = Num(-1) /\ call.options.strategy = "breadth"
    /\ StartDirectory = <<>>
    /\ HoldsTarget(<<"a">>)
    /\ ~HoldsTarget(<<>>)
    /\ result = Undefined

----------------------------------------------------------------------------
(* C8 *)

\* Whether the returned match comes first, in level order, among `dirs`.
FirstInLevelOrder(dirs) ==
    \A d \in dirs :
        \/ d = ResultDirectory
        \/ DepthBelow(ResultDirectory) < DepthBelow(d)
        \/ /\ DepthBelow(ResultDirectory) = DepthBelow(d)
           /\ ListedBefore(ResultDirectory, d)

\* C8 as stated: with strategy 'breadth' the returned match comes first in
\* level order among all the directories within maxDepth that hold the target.
C8_FirstAmongAll ==
    (Returned /\ call.options.strategy = "breadth" /\ result # Undefined) =>
        FirstInLevelOrder({d \in Within(maxDepth) : HoldsTarget(d)})

\* C8, amended: with strategy 'breadth' the returned match lies in a directory
\* within maxDepth the walk can reach, and comes first in level order among
\* the directories within maxDepth that hold the target and that the walk can
\* reach: it is of minimal depth, and listed first among those of its depth.
C8_FirstAmongReachable ==
    (Returned /\ call.options.strategy = "breadth" /\ result # Undefined) =>
        /\ ResultDirectory \in Within(maxDepth)
        /\ HoldsTarget(ResultDirectory)
        /\ Reachable(ResultDirectory)
        /\ FirstInLevelOrder(
              {d \in Within(maxDepth) : HoldsTarget(d) /\ Reachable(d)})

\* Two matches of depth 2 in different subtrees: the one under the
\* first-listed subdirectory of the start is returned.
C8_Witness ==
    /\ Returned /\ ~call.sync /\ call.options.strategy = "breadth"
    /\ StartDirectory = <<>>
    /\ subdirs[<<>>] = <<"b", "a">>
    /\ files = {<<"a", "a", "marker">>, <<"b", "b", "marker">>}
    /\ unreadable = {}
    /\ result = Str(<<"b", "b", "marker">>)

----------------------------------------------------------------------------
(* C9 *)

\* C9 as stated: under both strategies the directory of the returned match is
\* no deeper than any directory within maxDepth that holds the target.
C9_ShallowestUnderBoth ==
    (Returned /\ result # Undefined) =>
        \A d \in Within(maxDepth) :
            HoldsTarget(d) => DepthBelow(ResultDirectory) <= DepthBelow(d)

\* C9, amended: under both strategies no directory on the way from the start
\* directory down to the directory of the returned match holds the target (a
\* directory's own match is preferred over those below it); and with strategy
\* 'breadth' the directory of the returned match is no deeper than any
\* directory within maxDepth that holds the target and that the walk can reach.
C9_ShallowestAlongBranch ==
    (Returned /\ result # Undefined) =>
        /\ \A a \in Within(maxDepth) :
              StrictAncestor(a, ResultDirectory) => ~HoldsTarget(a)
        /\ call.options.strategy = "breadth" =>
              \A d \in Within(maxDepth) :
                  (HoldsTarget(d) /\ Reachable(d)) =>
                      DepthBelow(ResultDirectory) <= DepthBelow(d)

\* Depth-first, and a match of depth 2 under the first-listed subdirectory
\* returned although the second-listed subdirectory holds one of depth 1.
C9_Witness ==
    /\ Returned /\ call.options.strategy = "depth"
    /\ StartDirectory = <<>>
    /\ subdirs[<<>>] = <<"a", "b">>
    /\ files = {<<"a", "a", "marker">>, <<"b", "marker">>}
    /\ result = Str(<<"a", "a", "marker">>)

----------------------------------------------------------------------------
(* C10 *)

\* What findDownSync returns for the running call's arguments under `strategy`.
SyncResultUnder(strategy) ==
    LET r == IF strategy = "depth"
             THEN findDownDepthFirstSync(StartDirectory, call.name.paths,
                                         maxDepth, 0)
             ELSE findDownBreadthFirstSync(
                      <<[directory |-> StartDirectory, depth |-> 0]>>,
                      call.name.paths, maxDepth, <<>>)
    IN  IF r.found = Undefined THEN Undefined
        ELSE Str(PathResolve(<<Str(r.directory), r.found>>, procCwd))

OtherStrategy == IF call.options.strategy = "depth" THEN "breadth" ELSE "depth"

\* C10: when exactly one directory within maxDepth of the start holds the
\* target, what findDown returns under the strategy it is given is what it
\* returns for the same arguments under the other strategy.
C10_StrategiesAgreeOnSingleMatch ==
    (Returned /\ Cardinality({d \in Within(maxDepth) : HoldsTarget(d)}) = 1) =>
        result = SyncResultUnder(OtherStrategy)

\* The single match two levels down, under the second-listed subdirectory.
C10_Witness ==
    /\ Returned /\ ~call.sync /\ call.options.strategy = "depth"
    /\ StartDirectory = <<>>
    /\ subdirs[<<>>] = <<"a", "b">>
    /\ <<"a">> \in ExistingDirs(subdirs)
    /\ files = {<<"b", "a", "marker">>}
    /\ unreadable = {}
    /\ result = Str(<<"b", "a", "marker">>)

----------------------------------------------------------------------------
(* Both walks, each on its filesystems. *)

InitTwins == Init \/ InitDown

\* The upward calls are made in the upward walk's filesystem, from its deepest
\* directory, and the downward calls at the root of a tree.
NextTwins ==
    \/ procCwd = DeepDir /\ Next
    \/ procCwd = <<>> /\ NextDown

SpecTwins == InitTwins /\ [][NextTwins]_vars

----------------------------------------------------------------------------
(* Calls made one after the other, the working directory changing in between. *)

\* The caller has the result: the call's locals are gone, the module's caches stay.
Return ==
    /\ pc \in {"returned", "threw"}
    /\ callCount + 1 < MaxCalls
    /\ callCount' = callCount + 1
    /\ pc' = "idle"
    /\ call' = Undefined
    /\ directory' = <<>>
    /\ stopAt' = <<>>
    /\ limit' = Infinity
    /\ matches' = <<>>
    /\ maxDepth' = 0
    /\ queue' = <<>>
    /\ stack' = <<>>
    /\ result' = Undefined
    /\ matcherLog' = <<>>
    /\ fsLog' = <<>>
    /\ foundAt' = <<>>
    /\ UNCHANGED <<fsVars, pathCache, parentCache, tasks>>

\* process.chdir(dir), between two calls.
chdir(dir) ==
    /\ pc = "idle"
    /\ callCount > 0
    /\ dir # procCwd
    /\ procCwd' = dir
    /\ UNCHANGED <<files, subdirs, unreadable, pathCache, parentCache, pc, call,
                   upVars, downVars, result, fsLog, aloneVars>>

\* The options of the calls made in a row.
RowCwdOptions == {Undefined, Rel(<<DotDot>>), Abs(<<"a">>)}
RowUpOptions ==
    [cwd : RowCwdOptions, stopAt : {Undefined}, limit : {Undefined, Num(1)}]
RowDownOptions ==
    [cwd : RowCwdOptions, depth : {Undefined, Num(0)}, strategy : StrategyOptions]
\* The directories the process moves to.
ChdirTargets == Prefixes(DeepDir) \ {<<>>}

NextCalls ==
    \/ \E sync \in BOOLEAN, options \in RowUpOptions :
          findUpMultiple(sync, Names(<<Marker>>), options)
    \/ \E sync \in BOOLEAN, options \in RowUpOptions :
          findUp(sync, Names(<<Marker>>), options)
    \/ UpIterate(Undefined)
    \/ \E options \in RowDownOptions : findDown(Names(<<Marker>>), options)
    \/ \E options \in RowDownOptions : findDownSync(Names(<<Marker>>), options)
    \/ findDownBreadthFirst
    \/ findDownDepthFirst
    \/ Return
    \/ \E dir \in ChdirTargets : chdir(dir)

SpecCalls == Init /\ [][NextCalls]_vars

----------------------------------------------------------------------------
(* Asynchronous calls side by side.  Each call of `tasks` runs from one       *)
(* suspension point (an await of the matcher, of the existence check or of   *)
(* a listing) to the next in one step; the steps of the calls interleave.    *)

\* The calls running side by side.
CallIds == {1, 2}

\* A call not made yet.
IdleTask ==
    [pc |-> "idle", call |-> Undefined, directory |-> <<>>, stopAt |-> <<>>,
     limit |-> Infinity, matches |-> <<>>, maxDepth |-> 0, queue |-> <<>>,
     stack |-> <<>>, depth |-> 0, result |-> Undefined, inFlight |-> <<>>,
     answers |-> <<>>]

\* The operation not awaited: the function goes on while it is in flight.
NotAwaited(ops) == ops
\* await: the function goes on once the operation it awaits has settled.
Settled(ops) == Tail(ops)

\* An operation on the filesystem started by a call: locatePath(paths, {cwd:
\* directory}) or fs.promises.readdir(directory).
Started(ops, op, dir) == Append(ops, [op |-> op, directory |-> dir])

\* What one step of a call makes of the call and of the two caches.
Stepped(task, paths, parents) ==
    [task |-> task, pathCache |-> paths, parentCache |-> parents]

\* A turn of the loop of findUpMultiple begins on `dir`: runMatcher awaits the
\* custom matcher, or the existence check.
UpTurn(t, dir) ==
    IF t.call.name.kind = "function"
    THEN [t EXCEPT !.directory = dir, !.pc = "matcher"]
    ELSE [t EXCEPT !.directory = dir, !.pc = "locate",
                   !.inFlight = Started(@, "locate", dir)]

\* findUp / findUpMultiple, up to the first await.
AsyncUpEntry(t, op, name, options, walked, paths) ==
    LET seg1 == <<OrElse(walked.cwd, Rel(<<>>))>>
        dir == cachedResolve(paths, procCwd, seg1)
        paths1 == PathCacheAfter(paths, procCwd, seg1)
        seg2 == <<Str(dir), OrElse(walked.stopAt, PathParseRoot(dir))>>
        stop == cachedResolve(paths1, procCwd, seg2)
        paths2 == PathCacheAfter(paths1, procCwd, seg2)
        lim == OrElse(walked.limit, Infinity)
        t1 == [t EXCEPT !.call = [op |-> op, sync |-> FALSE, name |-> name,
                                  options |-> options],
                        !.stopAt = stop, !.limit = lim, !.directory = dir]
    IN  [task |-> IF IsZeroLimit(lim)
                  THEN [t1 EXCEPT !.pc = "returned", !.result = UpResult(op, <<>>)]
                  ELSE UpTurn(t1, dir),
         pathCache |-> paths2]

\* The loop of findUpMultiple from the await of runMatcher on, up to the next
\* await or the return.
UpResume(t, foundPath, paths, parents) ==
    LET dir == t.directory
        found == ~StopRequested(foundPath) /\ Truthy(foundPath)
        seg == <<Str(dir), foundPath>>
        items == IF found THEN Append(t.matches, cachedResolve(paths, procCwd, seg))
                 ELSE t.matches
        paths1 == IF found THEN PathCacheAfter(paths, procCwd, seg) ELSE paths
        full == found /\ AtLeast(Len(items), t.limit)
        asked == ~StopRequested(foundPath) /\ ~full /\ ~AtStopAt(dir, t.stopAt)
        parent == cachedDirname(parents, dir)
        parents1 == IF asked THEN ParentCacheAfter(parents, dir) ELSE parents
        t1 == [t EXCEPT !.matches = items]
    IN  IF ~asked \/ AtRoot(parent, dir)
        THEN Stepped([t1 EXCEPT !.pc = "returned",
                                !.result = UpResult(t.call.op, items)],
                     paths1, parents1)
        ELSE Stepped(UpTurn(t1, parent), paths1, parents1)

\* The custom matcher a call may be given answers nothing or a name.
AsyncAnswers == {Undefined, Marker}

AsyncFindUp(i, op, name, options, walked) ==
    LET e == AsyncUpEntry(tasks[i], op, name, options, walked, pathCache)
    IN  /\ tasks[i].pc = "idle"
        /\ tasks' = [tasks EXCEPT ![i] = e.task]
        /\ pathCache' = e.pathCache
        /\ UNCHANGED <<fsVars, parentCache, pc, call, upVars, downVars, result,
                       fsLog, callCount>>

\* await name(locateOptions.cwd) settles with `returned`: runMatcher goes on to
\* the existence check of a string, or returns what it got.
UpMatcherAnswered(i, returned) ==
    LET t == tasks[i]
        t1 == [t EXCEPT !.answers =
                  Append(@, [directory |-> t.directory, returned |-> returned])]
        r == UpResume(t1, returned, pathCache, parentCache)
    IN  /\ t.pc = "matcher"
        /\ IF IsString(returned)
           THEN /\ tasks' = [tasks EXCEPT ![i] =
                       [t1 EXCEPT !.pc = "locate",
                                  !.inFlight = Started(@, "locate", t.directory)]]
                /\ UNCHANGED <<pathCache, parentCache>>
           ELSE /\ tasks' = [tasks EXCEPT ![i] = r.task]
                /\ pathCache' = r.pathCache
                /\ parentCache' = r.parentCache
        /\ UNCHANGED <<fsVars, pc, call, upVars, downVars, result, fsLog, callCount>>

\* The existence check awaited by findUpMultiple settles.
UpLocated(i) ==
    LET t == tasks[i]
        paths == IF t.call.name.kind = "function"
                 THEN <<t.answers[Len(t.answers)].returned>>
                 ELSE t.call.name.paths
        r == UpResume([t EXCEPT !.inFlight = Settled(@)],
                      locatePath(paths, t.directory, files), pathCache, parentCache)
    IN  /\ t.pc = "locate"
        /\ t.call.op \in {"findUp", "findUpMultiple"}
        /\ tasks' = [tasks EXCEPT ![i] = r.task]
        /\ pathCache' = r.pathCache
        /\ parentCache' = r.parentCache
        /\ UNCHANGED <<fsVars, pc, call, upVars, downVars, result, fsLog, callCount>>

\* The loop of findDownBreadthFirst at its head: the next directory of the
\* queue is taken and its existence check awaited, or the walk returns.
BreadthTurn(t) ==
    IF t.queue = <<>>
    THEN [t EXCEPT !.pc = "returned", !.result = Undefined]
    ELSE [t EXCEPT !.queue = Tail(@),
                   !.directory = Head(t.queue).directory,
                   !.depth = Head(t.queue).depth,
                   !.pc = "locate",
                   !.inFlight = Started(@, "locate", Head(t.queue).directory)]

\* findDownDepthFirst called on the next entry of the innermost pending loop,
\* once the loops with no entry left have returned; or the walk returns.
DepthTurn(t) ==
    LET frames == Unwind(t.stack)
        top == frames[Len(frames)]
    IN  IF frames = <<>>
        THEN [t EXCEPT !.stack = <<>>, !.pc = "returned", !.result = Undefined]
        ELSE [t EXCEPT !.stack = [frames EXCEPT ![Len(frames)].todo = Tail(top.todo)],
                       !.directory = Head(top.todo),
                       !.depth = top.depth,
                       !.pc = "locate",
                       !.inFlight = Started(@, "locate", Head(top.todo))]

\* findDown, up to the first await.
AsyncFindDown(i, name, options) ==
    LET seg == <<OrElse(options.cwd, Rel(<<>>))>>
        startDirectory == cachedResolve(pathCache, procCwd, seg)
        t1 == [tasks[i] EXCEPT
                  !.call = [op |-> "findDown", sync |-> FALSE, name |-> name,
                            options |-> options],
                  !.maxDepth = ClampDepth(options.depth)]
    IN  /\ tasks[i].pc = "idle"
        /\ pathCache' = PathCacheAfter(pathCache, procCwd, seg)
        /\ tasks' = [tasks EXCEPT ![i] =
              IF options.strategy = "depth"
              THEN DepthTurn([t1 EXCEPT !.stack =
                                 <<[depth |-> 0, todo |-> <<startDirectory>>]>>])
              ELSE BreadthTurn([t1 EXCEPT !.queue =
                                   <<[directory |-> startDirectory, depth |-> 0]>>])]
        /\ UNCHANGED <<fsVars, parentCache, pc, call, upVars, downVars, result,
                       fsLog, callCount>>

\* The existence check awaited by findDownBreadthFirst or findDownDepthFirst
\* settles: the match is returned, or the listing is awaited, or, at
\* maxDepth, the walk goes on with the next directory.
DownLocated(i) ==
    LET t == tasks[i]
        found == locatePath(t.call.name.paths, t.directory, files)
        seg == <<Str(t.directory), found>>
        t1 == [t EXCEPT !.inFlight = Settled(@)]
    IN  /\ t.pc = "locate"
        /\ t.call.op = "findDown"
        /\ IF found # Undefined
           THEN /\ tasks' = [tasks EXCEPT ![i] =
                      [t1 EXCEPT !.pc = "returned",
                                 !.result = Str(cachedResolve(pathCache, procCwd, seg))]]
                /\ pathCache' = PathCacheAfter(pathCache, procCwd, seg)
           ELSE /\ tasks' = [tasks EXCEPT ![i] =
                      IF Descends(t.depth, t.maxDepth)
                      THEN [t1 EXCEPT !.pc = "readdir",
                                      !.inFlight = Started(@, "readdir", t.directory)]
                      ELSE IF t.call.options.strategy = "depth" THEN DepthTurn(t1)
                      ELSE BreadthTurn(t1)]
                /\ pathCache' = pathCache
        /\ UNCHANGED <<fsVars, parentCache, pc, call, upVars, downVars, result,
                       fsLog, callCount>>

\* The listing awaited by findDownBreadthFirst or findDownDepthFirst settles,
\* or fails: its subdirectories are queued, or gone through in a loop of their own.
DownListed(i) ==
    LET t == tasks[i]
        subs == Subdirectories(subdirs, files, unreadable, t.directory)
        pushed == [k \in 1..Len(subs) |->
                      [directory |-> subs[k], depth |-> t.depth + 1]]
        t1 == [t EXCEPT !.inFlight = Settled(@)]
    IN  /\ t.pc = "readdir"
        /\ tasks' = [tasks EXCEPT ![i] =
              IF t.call.options.strategy = "depth"
              THEN DepthTurn([t1 EXCEPT !.stack =
                                 Append(@, [depth |-> t.depth + 1, todo |-> subs])])
              ELSE BreadthTurn([t1 EXCEPT !.queue = Enqueue(@, pushed)])]
        /\ UNCHANGED <<fsVars, pathCache, parentCache, pc, call, upVars, downVars,
                       result, fsLog, callCount>>

\* The calls made side by side: their filesystem, and their arguments.
AsyncUpOptions ==
    [cwd : {Undefined, Abs(<<"a">>)}, stopAt : {Undefined}, limit : {Undefined}]
AsyncDownOptions ==
    [cwd : {Abs(<<>>)}, depth : {Undefined, Num(2)}, strategy : StrategyOptions]

InitAsync ==
    /\ files \in SUBSET {Append(d, "marker") : d \in {<<>>, <<"a">>, <<"b">>}}
    /\ subdirs = UpSubdirs
    /\ unreadable = {}
    /\ procCwd = <<"a", "b">>
    /\ pathCache = <<>>
    /\ parentCache = <<>>
    /\ pc = "idle"
    /\ call = Undefined
    /\ directory = <<>>
    /\ stopAt = <<>>
    /\ limit = Infinity
    /\ matches = <<>>
    /\ maxDepth = 0
    /\ queue = <<>>
    /\ stack = <<>>
    /\ result = Undefined
    /\ matcherLog = <<>>
    /\ fsLog = <<>>
    /\ foundAt = <<>>
    /\ callCount = 0
    /\ tasks = [i \in CallIds |-> IdleTask]

NextAsync ==
    \E i \in CallIds :
        \/ \E name \in UpNames, options \in AsyncUpOptions :
              AsyncFindUp(i, "findUpMultiple", name, options, options)
        \/ \E options \in AsyncUpOptions :
              AsyncFindUp(i, "findUp", Names(<<Marker>>), options,
                          WithLimitOne(options))
        \/ \E returned \in AsyncAnswers : UpMatcherAnswered(i, returned)
        \/ UpLocated(i)
        \/ \E options \in AsyncDownOptions :
              AsyncFindDown(i, Names(<<Marker>>), options)
        \/ DownLocated(i)
        \/ DownListed(i)

SpecAsync == InitAsync /\ [][NextAsync]_vars

----------------------------------------------------------------------------
(* C11 *)

IsPrefixOf(short, long) ==
    Len(short) <= Len(long) /\ SubSeq(long, 1, Len(short)) = short

\* findUpSync / findUpMultipleSync run on the running call's arguments, with
\* the matcher the running call was given, from the caches as the module loads them.
UpSyncTwin ==
    IF call.op = "findUp"
    THEN findUpSync(call.name, matcherLog, call.options, <<>>, <<>>)
    ELSE findUpMultipleSync(call.name, matcherLog, call.options, <<>>, <<>>)

\* The walk of findDownSync on the running call's arguments under `strategy`.
SyncOutcomeUnder(strategy) ==
    IF strategy = "depth"
    THEN findDownDepthFirstSync(StartDirectory, call.name.paths, maxDepth, 0)
    ELSE findDownBreadthFirstSync(
             <<[directory |-> StartDirectory, depth |-> 0]>>,
             call.name.paths, maxDepth, <<>>)

\* C11: each asynchronous operation resolves to what its synchronous twin
\* returns for the same arguments, matcher and filesystem, and inspects the
\* same directories in the same order: findUp and findUpSync, findUpMultiple
\* and findUpMultipleSync, findDown and findDownSync under both strategies.
\* While it runs, what it has inspected is the beginning of what the twin inspects.
C11_AsyncEqualsSync ==
    /\ (UpCall /\ ~call.sync) =>
          LET twin == UpSyncTwin
          IN  /\ pc # "threw"
              /\ IsPrefixOf(Inspected, twin.inspected)
              /\ pc = "returned" =>
                    /\ ~twin.threw
                    /\ result = UpResult(call.op, twin.matches)
                    /\ Inspected = twin.inspected
    /\ (DownCall /\ ~call.sync) =>
          LET twin == SyncOutcomeUnder(call.options.strategy)
          IN  /\ IsPrefixOf(fsLog, twin.log)
              /\ pc = "returned" =>
                    /\ fsLog = twin.log
                    /\ result =
                          IF twin.found = Undefined THEN Undefined
                          ELSE Str(PathResolve(<<Str(twin.directory), twin.found>>,
                                               procCwd))

\* An asynchronous depth-first walk that found the target under the second
\* subdirectory of the start, after it went through the first one's subtree.
C11_Witness ==
    /\ Returned /\ ~call.sync /\ call.options.strategy = "depth"
    /\ StartDirectory = <<>>
    /\ subdirs[<<>>] = <<"a", "b">>
    /\ Len(fsLog) >= 5
    /\ result = Str(<<"b", "marker">>)

\* An asynchronous findUpMultiple with a custom matcher, two matches up the way.
C11_WitnessUp ==
    /\ pc = "returned" /\ call.op = "findUpMultiple" /\ ~call.sync
    /\ call.name = FunctionMatcher
    /\ Len(matches) = 2
    /\ Len(Inspected) = 3

----------------------------------------------------------------------------
(* C12 *)

\* What the running call returns with the caches disabled: every resolve and
\* every dirname computed afresh, in the working directory as it is.
UncachedResult ==
    IF call.op = "findDown" THEN SyncResultUnder(call.options.strategy)
    ELSE UpResult(call.op, UpSyncTwin.matches)

\* The directory the running call started its walk in.
WalkedFrom ==
    IF call.op = "findDown" THEN fsLog[1].directory ELSE Inspected[1]

\* C12: after any sequence of calls interleaved with changes of the working
\* directory, the start directory cachedResolve gives a call is what an
\* uncached resolve gives at that moment, every parentCache entry holds the
\* uncached parent of its key, and every result is the result of the same
\* call run with the caches disabled.
C12_MemoizationTransparent ==
    /\ \A i \in 1..Len(parentCache) :
          parentCache[i].value = PathDirname(parentCache[i].key)
    /\ (pc # "idle" /\ call.name.kind = "names") =>
          /\ (IF call.op = "findDown" THEN fsLog # <<>> ELSE Inspected # <<>>) =>
                WalkedFrom = StartDirectory
          /\ pc = "returned" => result = UncachedResult

----------------------------------------------------------------------------
(* C13 *)

\* The walk made the existence check in d.
Checked(d) == \E i \in 1..Len(fsLog) : fsLog[i] = [op |-> "locate", directory |-> d]
\* The walk listed d and the listing failed.
FailedListing(d) ==
    /\ ReaddirFails(subdirs, unreadable, d)
    /\ \E i \in 1..Len(fsLog) : fsLog[i] = [op |-> "readdir", directory |-> d]

\* C13: a listing failure during findDown is never an error of the call: the
\* failing directory is taken to have no subdirectories (nothing below it is
\* inspected), the walk goes on with the other directories (a walk that
\* found nothing has checked every directory within maxDepth that it can
\* reach), and a target in a directory within maxDepth that it can reach is
\* found, under both strategies.
C13_ListingFailureSwallowed ==
    DownCall =>
        /\ pc # "threw"
        /\ \A i \in 1..Len(fsLog) :
              FailedListing(fsLog[i].directory) =>
                  \A j \in 1..Len(fsLog) :
                      ~StrictAncestor(fsLog[i].directory, fsLog[j].directory)
        /\ (pc = "returned" /\ result = Undefined) =>
              \A d \in Within(maxDepth) :
                  Reachable(d) => (Checked(d) /\ ~HoldsTarget(d))
        /\ (pc = "returned" /\ result # Undefined) =>
              /\ HoldsTarget(ResultDirectory)
              /\ Reachable(ResultDirectory)

\* /a fails to list and holds the target below it; the target in /b, listed
\* after /a, is found, under the depth-first strategy.
C13_Witness ==
    /\ Returned /\ ~call.sync /\ call.options.strategy = "depth"
    /\ StartDirectory = <<>>
    /\ subdirs[<<>>] = <<"a", "b">>
    /\ FailedListing(<<"a">>)
    /\ HoldsTarget(<<"a", "a">>)
    /\ result = Str(<<"b", "marker">>)

----------------------------------------------------------------------------
(* C14 *)

\* The custom matcher has handed the walk a pending asynchronous result.
PendingSeen == \E i \in 1..Len(matcherLog) : matcherLog[i].returned = PromiseValue

\* C14: a synchronous upward call whose matcher needs asynchronous evaluation
\* is rejected when it is made, before any directory is processed: a
\* synchronous walk never hands a directory to a matcher that answers with a
\* pending result.
C14_RejectedAtCallTime ==
    (UpCall /\ call.sync) => ~PendingSeen

----------------------------------------------------------------------------
(* C15 *)

\* The synchronous twin of the running call, were it given `options`.
UpSyncTwinWith(options) ==
    IF call.op = "findUp"
    THEN findUpSync(call.name, matcherLog, options, <<>>, <<>>)
    ELSE findUpMultipleSync(call.name, matcherLog, options, <<>>, <<>>)

\* C15: a stopAt that resolves to a directory that is neither the start
\* directory nor an ancestor of it never equals the current directory and has
\* no effect: the walk inspects what it inspects, and returns what it
\* returns, when no stopAt is given, and a walk that ran its course has
\* inspected every ancestor up to the root, the root last.
C15_StopAtOffTheWay ==
    (UpCall /\ ~IsPrefix(stopAt, StartDirectory)) =>
        LET twin == UpSyncTwinWith([call.options EXCEPT !.stopAt = Undefined])
        IN  /\ \A i \in 1..Len(Inspected) : Inspected[i] # stopAt
            /\ IsPrefixOf(Inspected, twin.inspected)
            /\ pc = "threw" => twin.threw
            /\ pc = "returned" =>
                  /\ Inspected = twin.inspected
                  /\ result = UpResult(call.op, twin.matches)
            /\ RanItsCourse =>
                  /\ Len(Inspected) = Len(StartDirectory) + 1
                  /\ Inspected[Len(Inspected)] = <<>>

\* From /a/b with stopAt /b: the walk goes past /a to the root and finds the
\* marker there.
C15_Witness ==
    /\ pc = "returned" /\ call.op = "findUp"
    /\ call.options.stopAt = Abs(<<"b">>)
    /\ StartDirectory = <<"a", "b">>
    /\ files = {<<"marker">>}
    /\ Inspected = <<<<"a", "b">>, <<"a">>, <<>>>>
    /\ result = Str(<<"marker">>)

----------------------------------------------------------------------------
(* C16 *)

\* The directories the walk of the running call goes through: the start
\* directory and its ancestors, up to stopAt if it is one of them.
OnTheWay(d) ==
    /\ IsPrefix(d, StartDirectory)
    /\ IsPrefix(stopAt, StartDirectory) => IsPrefix(stopAt, d)

\* C16: whatever limit its caller gave, findUp / findUpSync returns the
\* first element of what findUpMultipleSync returns for the same arguments
\* with limit 1, or nothing if that is empty; for a name it is the candidate
\* in the nearest directory on the way that holds one; and it throws only
\* when its matcher handed it a pending result, never for want of a match.
C16_FindUpIsLimitOne ==
    (pc \in {"returned", "threw"} /\ call.op = "findUp") =>
        LET multiple ==
                findUpMultipleSync(call.name, matcherLog,
                                   [call.options EXCEPT !.limit = Num(1)],
                                   <<>>, <<>>)
        IN  /\ pc = "threw" => (PendingSeen /\ multiple.threw)
            /\ pc = "returned" =>
                  /\ result = First(multiple.matches)
                  /\ Len(multiple.matches) <= 1
                  /\ foundAt = <<>> => result = Undefined
                  /\ call.name.kind = "names" =>
                        IF result = Undefined
                        THEN \A d \in Prefixes(StartDirectory) :
                                 OnTheWay(d) => ~HoldsTarget(d)
                        ELSE /\ result.segs = Append(ResultDirectory, "marker")
                             /\ OnTheWay(ResultDirectory)
                             /\ HoldsTarget(ResultDirectory)
                             /\ \A d \in Prefixes(StartDirectory) :
                                    (OnTheWay(d) /\ HoldsTarget(d)) =>
                                        IsPrefix(d, ResultDirectory)

\* findUp called with limit 0 from /a/b, candidates in /a and in /: the one
\* in /a is returned.
C16_Witness ==
    /\ pc = "returned" /\ call.op = "findUp"
    /\ call.options.limit = Num(0)
    /\ StartDirectory = <<"a", "b">>
    /\ files = {<<"a", "marker">>, <<"marker">>}
    /\ result = Str(<<"a", "marker">>)

----------------------------------------------------------------------------
(* C17 *)

\* C17: within one asynchronous call at most one operation on the filesystem
\* is in flight at any time: while the call awaits an existence check or a
\* listing, that operation on the current directory is the only one it has
\* started and not seen settle, and when it awaits its matcher, or has
\* returned, it has none. The next directory's check starts only once the
\* check and the listing of the directory before have settled.
C17_OneOperationInFlight ==
    \A i \in DOMAIN tasks :
        /\ Len(tasks[i].inFlight) <= 1
        /\ tasks[i].pc \in {"locate", "readdir"} =>
              tasks[i].inFlight =
                  <<[op |-> tasks[i].pc, directory |-> tasks[i].directory]>>
        /\ tasks[i].pc \in {"idle", "matcher", "returned"} =>
              tasks[i].inFlight = <<>>

\* A depth-first findDown that has checked / and /a, listed both, and awaits
\* the check of /a/b, while the other call awaits a listing of its own.
C17_Witness ==
    /\ tasks # <<>>
    /\ tasks[1].pc = "locate"
    /\ tasks[1].call.op = "findDown"
    /\ tasks[1].call.options.strategy = "depth"
    /\ tasks[1].directory = <<"a", "b">>
    /\ tasks[2].pc = "readdir"

----------------------------------------------------------------------------
(* C18 *)

\* What the call of task t returns when it runs alone.
AloneResult(t) ==
    LET options == t.call.options
        start == PathResolve(<<OrElse(options.cwd, Rel(<<>>))>>, procCwd)
        down == IF options.strategy = "depth"
                THEN findDownDepthFirstSync(start, t.call.name.paths,
                                            ClampDepth(options.depth), 0)
                ELSE findDownBreadthFirstSync(
                         <<[directory |-> start, depth |-> 0]>>,
                         t.call.name.paths, ClampDepth(options.depth), <<>>)
    IN  IF t.call.op = "findDown"
        THEN IF down.found = Undefined THEN Undefined
             ELSE Str(PathResolve(<<Str(down.directory), down.found>>, procCwd))
        ELSE IF t.call.op = "findUp"
        THEN UpResult("findUp",
                      findUpSync(t.call.name, t.answers, options, <<>>, <<>>).matches)
        ELSE UpResult("findUpMultiple",
                      findUpMultipleSync(t.call.name, t.answers, options,
                                         <<>>, <<>>).matches)

\* No key twice in a cache.
KeysOnce(cache) ==
    \A i, j \in 1..Len(cache) : cache[i].key = cache[j].key => i = j

\* C18: however the steps of the asynchronous calls interleave, over an
\* unchanging filesystem and working directory, each call returns what it
\* returns when run alone, and at every moment each entry of pathCache holds
\* the uncached path.resolve of its key, each entry of parentCache the
\* uncached path.dirname of its key, and no key has two entries.
C18_CachesSafeSideBySide ==
    /\ \A k \in 1..Len(pathCache) :
          pathCache[k].value = PathResolve(pathCache[k].key, procCwd)
    /\ \A k \in 1..Len(parentCache) :
          parentCache[k].value = PathDirname(parentCache[k].key)
    /\ KeysOnce(pathCache)
    /\ KeysOnce(parentCache)
    /\ \A i \in DOMAIN tasks :
          tasks[i].pc = "returned" => tasks[i].result = AloneResult(tasks[i])

\* A findUpMultiple from /a/b and a findDown from / both returned, the
\* second one's match resolved through the entry the first one made.
C18_Witness ==
    /\ tasks # <<>>
    /\ tasks[1].pc = "returned" /\ tasks[1].call.op = "findUpMultiple"
    /\ tasks[1].result = Array(<<<<"a", "marker">>>>)
    /\ tasks[2].pc = "returned" /\ tasks[2].call.op = "findDown"
    /\ tasks[2].result = Str(<<"a", "marker">>)
    /\ Len(pathCache) = 4
    /\ pathCache[3].key = <<Str(<<"a">>), Marker>>
    /\ pathCache[4].key = <<Abs(<<>>)>>

----------------------------------------------------------------------------
(* C19 *)

RECURSIVE PreOrder(_, _, _, _)
RECURSIVE PreOrderOfEach(_, _, _, _, _)
\* The pre-order of the directories at most `levels` levels below d, d first,
\* then the subtree of each subdirectory in listing order. With `listable`,
\* a directory whose listing fails has no subdirectories.
PreOrder(tree, d, levels, listable) ==
    <<d>> \o
    (IF levels = 0 \/ (listable /\ ReaddirFails(tree, unreadable, d)) THEN <<>>
     ELSE PreOrderOfEach(tree, d, Listing(tree, d), levels - 1, listable))

PreOrderOfEach(tree, d, names, levels, listable) ==
    IF names = <<>> THEN <<>>
    ELSE PreOrder(tree, Append(d, Head(names)), levels, listable)
         \o PreOrderOfEach(tree, d, Tail(names), levels, listable)

\* The directories the walk has made the existence check in, in order.
CheckedInOrder ==
    LET checks == SelectSeq(fsLog, LAMBDA e : e.op = "locate")
    IN  [i \in 1..Len(checks) |-> checks[i].directory]

\* The result is the match of the first directory of `order` that holds the
\* target, or nothing if none does.
ResultIsFirstOf(order) ==
    LET holders == {k \in 1..Len(order) : HoldsTarget(order[k])}
        first == CHOOSE k \in holders : \A j \in holders : k <= j
    IN  IF holders = {} THEN result = Undefined
        ELSE result = Str(Append(order[first], "marker"))

\* The walk makes its existence checks along `order`, as far as the first
\* directory that holds the target.
ChecksAlong(order) ==
    /\ IsPrefixOf(CheckedInOrder, order)
    /\ \A k \in 1..(Len(CheckedInOrder) - 1) : ~HoldsTarget(order[k])
    /\ pc = "returned" =>
          \/ CheckedInOrder = order
          \/ HoldsTarget(CheckedInOrder[Len(CheckedInOrder)])

\* C19 as stated: with strategy 'depth' findDown returns the match of the
\* first directory that holds the target in the pre-order of the directories
\* within maxDepth of the start, or nothing if none does.
C19_FirstInPreOrderOfAll ==
    (Returned /\ call.options.strategy = "depth") =>
        ResultIsFirstOf(PreOrder(subdirs, StartDirectory, maxDepth, FALSE))

\* C19, amended: with strategy 'depth' findDown returns the first match of
\* the pre-order of the directories within maxDepth that it can reach through
\* successful listings: a directory's own existence check comes before its
\* listing, which comes next if it is made at all; the subdirectories are
\* entered in listing order, each one's subtree gone through before the next
\* is entered; and the result is the match of the first directory in that
\* order that holds the target, or nothing if none does.
C19_FirstInPreOrderOfReachable ==
    (DownCall /\ call.options.strategy = "depth") =>
        LET order == PreOrder(subdirs, StartDirectory, maxDepth, TRUE)
        IN  /\ ChecksAlong(order)
            /\ pc = "returned" => ResultIsFirstOf(order)
            /\ \A i \in 1..Len(fsLog) :
                  fsLog[i].op = "readdir" =>
                      /\ i > 1
                      /\ fsLog[i - 1] =
                            [op |-> "locate", directory |-> fsLog[i].directory]

\* The subtree of /a, listed first, is gone through to depth 2 before /b is
\* entered, and /b's match is returned.
C19_Witness ==
    /\ Returned /\ call.options.strategy = "depth"
    /\ StartDirectory = <<>>
    /\ maxDepth = 2
    /\ CheckedInOrder = <<<<>>, <<"a">>, <<"a", "b">>, <<"a", "a">>, <<"b">>>>
    /\ result = Str(<<"b", "marker">>)

----------------------------------------------------------------------------
(* Calls made once the caches are nearly full or full.  The caches are what  *)
(* a row of findUpMultipleSync calls leaves, the k-th of them made from the   *)
(* directory /fill/x/y/z of its own with stopAt at that directory's parent,   *)
(* where nothing matches.                                                     *)

Digits == <<"0", "1", "2", "3", "4", "5", "6", "7", "8", "9">>
\* The directory the k-th call starts from: /fill/x/y/z, xyz the digits of k.
FillDir(k) ==
    <<"fill", Digits[((k \div 100) % 10) + 1], Digits[((k \div 10) % 10) + 1],
      Digits[(k % 10) + 1]>>
\* The options of the k-th call.
FillOptions(k) ==
    [cwd |-> Abs(FillDir(k)), stopAt |-> Abs(PathDirname(FillDir(k))),
     limit |-> Undefined]

\* What the calls hand to cachedResolve, in order: the k-th call its cwd,
\* and then its start directory with its stopAt.
FillSegments(i) ==
    LET options == FillOptions((i + 1) \div 2)
    IN  IF i % 2 = 1 THEN <<options.cwd>>
        ELSE <<Str(PathResolve(<<options.cwd>>, <<>>)), options.stopAt>>
\* The i-th entry the calls put in pathCache.
FillPathEntry(i) ==
    [key |-> ResolveKey(FillSegments(i)),
     value |-> PathResolve(FillSegments(i), <<>>)]
\* The k-th entry the calls put in parentCache: the k-th call goes one
\* directory up, from its start directory to its stopAt.
FillParentEntry(k) ==
    [key |-> FillDir(k), value |-> PathDirname(FillDir(k))]
\* How many of the `count` entries put in a cache holds: the latest ones.
EntriesKept(count) == IF count > maxCacheSize THEN maxCacheSize ELSE count

\* The caches after the first n of these calls, the module just loaded before them.
CachesAfterFilling(n) ==
    [pathCache |->
        [i \in 1..EntriesKept(2 * n) |->
            FillPathEntry(2 * n - EntriesKept(2 * n) + i)],
     parentCache |->
        [k \in 1..EntriesKept(n) |-> FillParentEntry(n - EntriesKept(n) + k)]]

\* How many such calls were made: pathCache is two short of full, or
\* parentCache is one short of full, or both are full.
FillCalls == {maxCacheSize \div 2 - 1, maxCacheSize - 1, maxCacheSize}

InitFull ==
    /\ files \in {{}, {<<"a", "marker">>}}
    /\ subdirs = UpSubdirs
    /\ unreadable = {}
    /\ procCwd = DeepDir
    /\ \E n \in FillCalls :
          /\ pathCache = CachesAfterFilling(n).pathCache
          /\ parentCache = CachesAfterFilling(n).parentCache
    /\ NoCall

\* The calls made then: from the working directory, and from the directory
\* of the latest of the calls that filled the caches.
FullCwdOptions == {Undefined, Abs(FillDir(maxCacheSize))}
FullUpOptions == [cwd : FullCwdOptions, stopAt : {Undefined}, limit : {Undefined}]
FullDownOptions ==
    [cwd : {Abs(FillDir(maxCacheSize)), Abs(<<"b">>)}, depth : {Num(0)},
     strategy : {"breadth"}]

NextFull ==
    \/ \E options \in FullUpOptions :
          findUpMultiple(TRUE, Names(<<Marker>>), options)
    \/ \E options \in FullUpOptions : findUp(FALSE, Names(<<Marker>>), options)
    \/ UpIterate(Undefined)
    \/ \E options \in FullDownOptions : findDownSync(Names(<<Marker>>), options)
    \/ Return

SpecFull == InitFull /\ [][NextFull]_vars

----------------------------------------------------------------------------
(* C20 *)

\* `new` is `old` after some insertions, each of a key the cache did not
\* hold: the entries kept are the latest of `old` in their order, the oldest
\* ones are gone only if `new` is full, and nothing is held twice.
CacheStep(old, new) ==
    \E d \in 0..Len(old) :
        /\ d < Len(old) => (Len(new) > 0 /\ new[1] = old[d + 1])
        /\ d = Len(old) => old = <<>>
        /\ Len(new) >= Len(old) - d
        /\ \A i \in 1..(Len(old) - d) : new[i] = old[i + d]
        /\ d > 0 => Len(new) = maxCacheSize
        /\ \A i \in (Len(old) - d + 1)..Len(new) :
              \A j \in 1..(i - 1) : new[j].key # new[i].key

\* C20: after any sequence of public calls neither pathCache nor parentCache
\* holds more than maxCacheSize entries; an insertion that finds the cache
\* full removes exactly the oldest entry before adding the new one, and a
\* cache hit neither adds nor removes an entry.
C20_CachesBounded ==
    /\ [](Len(pathCache) <= maxCacheSize /\ Len(parentCache) <= maxCacheSize)
    /\ [][/\ CacheStep(pathCache, pathCache')
          /\ CacheStep(parentCache, parentCache')]_vars

\* Both caches are full, and a call from the working directory has put the
\* oldest entry of parentCache out and no other.
C20_Witness ==
    /\ pc = "returned"
    /\ Len(pathCache) = maxCacheSize
    /\ Len(parentCache) = maxCacheSize
    /\ ~CacheHas(parentCache, FillDir(1))
    /\ parentCache[1].key = FillDir(2)
    /\ CacheHas(parentCache, procCwd)

====
